---------------------------- MODULE Spec2Model ----------------------------
(***************************************************************************)
(* Tilting Arpeggios (examples/advanced_examples/                          *)
(* circuitplayground_tilting_arpeggios.py): the polling loop of            *)
(* TiltingArpeggios.run, the debounced buttons, the circle of fourths, the *)
(* precomputed note tables and the tone change.                            *)
(*                                                                         *)
(* Units.  The monotonic clock is counted in ticks of 0.05 s, the largest  *)
(* unit in which both intervals of the program are whole numbers           *)
(* (0.25 s = 5 ticks, 0.2 s = 4 ticks).  Acceleration is counted in        *)
(* 0.01 m/s^2 (standard gravity 9.81 m/s^2 = 981).  Frequencies are        *)
(* counted in millihertz.                                                  *)
(***************************************************************************)
EXTENDS Integers, Sequences, FiniteSets, TLC

\* ------------------------------------------------------------------ bounds
\* The clock stops advancing at MaxTime (the loop goes on polling).
MaxTime == 9
\* The most the clock advances between two consecutive readings of it.
MaxStep == 4
\* The two readings of the clock in __init__ are at most this far from 0 and
\* from each other.
MaxInitSkew == 1
\* The accelerometer's Y reading lies in -MaxAccel .. MaxAccel.
MaxAccel == 1200
\* create_arpeggios is applied to 1 .. MaxOctaves octaves.
MaxOctaves == 8
\* The longest run of consecutive advance(+1) calls that is counted.
MaxRun == 12
\* calc_freq is applied to the note indexes 0 .. MaxNote.
MaxNote == 24
\* The accepted presses between two evaluations are counted up to MaxPresses.
MaxPresses == 2

\* --------------------------------------------------------------- constants
HS_OCT == 12
HS_4TH == 5
ARPEGGIOS == << <<0, 4, 7, 10>>, <<0, 3, 5, 6, 7, 10>> >>
NUM_OCTAVES == 4
MIN_NOTE_PLAY_SECONDS == 4
BUTTON_REPEAT_AFTER_SECONDS == 5
standard_gravity == 981
highest_supported_frequency == 20000000
volume == 1
\* The pixel ring of CustomizedExpress.__init__: NeoPixel(board.NEOPIXEL, 10).
NUM_PIXELS == 10

\* Python's None, and a value that is not None: an attribute that may be None
\* holds a sequence of at most one element.
None == << >>
Some(x) == << x >>

VARIABLES
    \* the environment
    now,                          \* the latest reading of time.monotonic()
    \* TiltingArpeggios
    circle_pos,
    key_offset,
    last_freq,
    next_freq_change_allowed_at,
    next_press_allowed_at,
    arpeg_note_indexes,
    \* CustomizedExpress
    pixels,                       \* the ring, pixel i at position i + 1
    sample_rate,                  \* of the looping sample, None while silent
    \* the position in run(): "pollA", "pollB", "tone", or "crashed"
    pc,
    \* history: what the operations did
    last_pressed,                 \* per button, its latest pressed() call
    last_accept,                  \* the latest accepted press
    last_eval,                    \* the latest change_tone_if_needed()
    start_tone_arg,               \* the argument of the latest start_tone()
    adv_run,                      \* the current run of advance(+1) calls
    last_adv,                     \* the latest advance() call
    built_octaves,                \* num_octaves of the latest create_arpeggios()
    probe,                        \* the latest direct call of freq()
    calc_pair,                    \* the latest two direct calls of calc_freq()
    presses_since_eval,           \* accepted presses since the latest evaluation
    \* the scenario: None, or Some(index) of the one button that is held down
    \* all the time while the other stays released
    held

vars == << now, circle_pos, key_offset, last_freq, next_freq_change_allowed_at,
           next_press_allowed_at, arpeg_note_indexes, pixels, sample_rate, pc,
           last_pressed, last_accept, last_eval, start_tone_arg, adv_run, last_adv,
           built_octaves, probe, calc_pair, presses_since_eval, held >>

Min(a, b) == IF a <= b THEN a ELSE b
Max(a, b) == IF a >= b THEN a ELSE b

\* ---------------------------------------------------------- pure functions

\* Mutant of OctaveNotes: the octave's offset is forgotten.
OctaveNotesNoOffset(arpeggio, octave, n) == [k \in 1..n |-> arpeggio[k]]

\* TiltingArpeggios.create_arpeggio: the comprehension
\*   [octave * HS_OCT + note for octave in range(num_octaves) for note in arpeggio]
\* appends, octave by octave, the notes of the arpeggio in order.
RECURSIVE OctaveNotes(_, _, _)
OctaveNotes(arpeggio, octave, n) ==
    IF n = 0 THEN << >>
    ELSE Append(OctaveNotes(arpeggio, octave, n - 1), octave * HS_OCT + arpeggio[n])

RECURSIVE create_arpeggio_upto(_, _)
create_arpeggio_upto(arpeggio, octaves) ==
    IF octaves = 0 THEN << >>
    ELSE create_arpeggio_upto(arpeggio, octaves - 1)
             \o OctaveNotes(arpeggio, octaves - 1, Len(arpeggio))

\* Mutant of create_arpeggio: range(num_octaves - 1), one octave short.
create_arpeggio_short(arpeggio, num_octaves) ==
    create_arpeggio_upto(arpeggio, num_octaves - 1)

create_arpeggio(arpeggio, num_octaves) ==
    create_arpeggio_upto(arpeggio, num_octaves)

\* TiltingArpeggios.create_arpeggios: one table per arpeggio of ARPEGGIOS.
create_arpeggios(num_octaves) ==
    [a \in 1..Len(ARPEGGIOS) |-> create_arpeggio(ARPEGGIOS[a], num_octaves)]

\* TiltingArpeggios.calc_freq: STARTING_NOTE * 2 ** (i / HS_OCT), in mHz.  The
\* twelve values of STARTING_NOTE * 2 ** (k / 12), k = 0 .. 11 (C2 .. B2), are
\* tabulated to the millihertz; whole octaves double them.
SemitoneMilliHz ==
    << 65406, 69296, 73416, 77782, 82407, 87307,
       92499, 97999, 103826, 110000, 116541, 123471 >>

RECURSIVE Pow2(_)
Pow2(n) == IF n = 0 THEN 1 ELSE 2 * Pow2(n - 1)

\* Mutant of calc_freq: a product where the power should be,
\* STARTING_NOTE * 2 * (i / HS_OCT).
calc_freq_product(i) == (SemitoneMilliHz[1] * 2 * i) \div HS_OCT

calc_freq(i) == SemitoneMilliHz[(i % HS_OCT) + 1] * Pow2(i \div HS_OCT)

\* Mutant of constrained_accel: the upper clamp is missing.
constrained_accel_unclamped(accel_y) == Max(0, -accel_y)

\* TiltingArpeggios.tilt: the Y acceleration negated, clamped to
\* [0, standard_gravity]; the quotient by standard_gravity is taken in
\* arpeg_index below, so that the normalized tilt is the exact fraction
\* constrained_accel / standard_gravity.
constrained_accel(accel_y) == Min(Max(0, -accel_y), standard_gravity)

\* freq: num_arpeg_notes_in_range of the selected arpeggio (0-based selector).
num_arpeg_notes_in_range(selected_arpeg) ==
    Len(ARPEGGIOS[selected_arpeg + 1]) * NUM_OCTAVES + 1

\* freq: arpeg_index = int(normalized_position * num_arpeg_notes_in_range).
arpeg_index(accel_y, selected_arpeg) ==
    (constrained_accel(accel_y) * num_arpeg_notes_in_range(selected_arpeg))
        \div standard_gravity

\* freq: note_index, where arpeg_index is inside the table.
note_index(table, offset, accel_y, selected_arpeg) ==
    offset + table[selected_arpeg + 1][arpeg_index(accel_y, selected_arpeg) + 1]

\* TiltingArpeggios.freq on the table `table` and the key offset `offset`: the
\* frequency returned, or the IndexError raised when arpeg_index is past the
\* end of the table (arpeg_index is never negative, so Python's negative
\* indexing plays no part).
freq(table, offset, accel_y, selected_arpeg) ==
    LET notes == table[selected_arpeg + 1]
        idx   == arpeg_index(accel_y, selected_arpeg)
    IN  IF idx >= Len(notes)
        THEN [raised |-> TRUE, value |-> 0]
        ELSE [raised |-> FALSE,
              value |-> calc_freq(note_index(table, offset, accel_y, selected_arpeg))]

\* Mutant of pixel_index: the remainder is taken by the twelve positions of the
\* circle instead of the ten pixels of the ring.
pixel_index_mod_circle(pos) == (4 - pos) % HS_OCT

\* Mutant of pixel_color: the second turn of the ring keeps the first color.
pixel_color_single(pos) == "green"

\* TiltingArpeggios.update_pixel: the ring after fill((0, 0, 0)) and the one
\* pixel set.
pixel_index(pos) == (4 - pos) % NUM_PIXELS
pixel_color(pos) == IF pos <= 9 THEN "green" ELSE "yellow"
update_pixel(pos) ==
    [i \in 1..NUM_PIXELS |-> IF i = pixel_index(pos) + 1 THEN pixel_color(pos) ELSE "off"]

\* Mutant of advance_pos: a remainder that keeps the sign of the dividend.
advance_pos_truncating(pos, amount) ==
    IF pos + amount < 0 THEN -((-(pos + amount)) % HS_OCT) ELSE (pos + amount) % HS_OCT

\* Mutant of advance_key: a whole octave for every position, which is no
\* transposition at all.
advance_key_octave(pos) == (pos * HS_OCT) % HS_OCT

\* Mutant of advance_key: a fifth (7 half-steps) instead of a fourth.
advance_key_fifth(pos) == (pos * 7) % HS_OCT

\* TiltingArpeggios.advance: the new circle_pos and key_offset.
advance_pos(pos, amount) == (pos + amount) % HS_OCT
advance_key(pos) == (pos * HS_4TH) % HS_OCT

\* Mutant of start_tone: a ceiling of 2 kHz.
start_tone_low_ceiling(rate, frequency) ==
    IF frequency <= highest_supported_frequency \div 10 /\ volume > 0
    THEN Some((2 * frequency) \div 1000)
    ELSE rate

\* CustomizedExpress.start_tone: the sample rate after the call.
start_tone(rate, frequency) ==
    IF frequency <= highest_supported_frequency /\ volume > 0
    THEN Some((2 * frequency) \div 1000)
    ELSE rate

\* time.monotonic(): a reading not before the latest one.
Readings(t) == t .. Min(t + MaxStep, MaxTime)

\* -------------------------------------------------------------------- Init

\* TiltingArpeggios.__init__ (and the module's cpx = CustomizedExpress()): the
\* clock is read once for each deadline.
InitHolding(h) ==
    \E t0 \in 0..MaxInitSkew :
      \E t1 \in t0..(t0 + MaxInitSkew) :
        /\ now = t1
        /\ circle_pos = 0
        /\ key_offset = 0
        /\ pixels = update_pixel(0)
        /\ last_freq = None
        /\ next_freq_change_allowed_at = t0
        /\ next_press_allowed_at = t1
        /\ arpeg_note_indexes = create_arpeggios(NUM_OCTAVES + 2)
        /\ sample_rate = None
        /\ pc = "pollA"
        /\ last_pressed = [i \in 0..1 |-> None]
        /\ last_accept = None
        /\ last_eval = None
        /\ start_tone_arg = None
        /\ adv_run = [start |-> 0, len |-> 0]
        /\ last_adv = None
        /\ built_octaves = NUM_OCTAVES + 2
        /\ probe = None
        /\ calc_pair = None
        /\ presses_since_eval = 0
        /\ held = h

\* The program started with the buttons free to go down and up.
Init == InitHolding(None)

\* The program started with one button held down and the other released.
InitHeld == \E index \in 0..1 : InitHolding(Some(index))

\* ----------------------------------------------------------------- actions

\* The accelerometer readings the loop is run on: flat, half tilted, and
\* tilted past one g.
AccelSamples == {0, -(standard_gravity \div 2), -MaxAccel}

\* cpx.button_a (index 0), cpx.button_b (index 1): the levels the button can
\* be read at.
Levels(index) == IF held = None THEN BOOLEAN ELSE {held = Some(index)}

\* Mutant of pressed: the deadline is ignored.
pressed_no_deadline(level, t, deadline) == level

\* Mutant of pressed: the deadline itself is still too early.
pressed_strict(level, t, deadline) == level /\ t > deadline

\* TiltingArpeggios.pressed(index), the raw level of the button being
\* `level` and the clock read `t`: whether the press is accepted.
pressed(level, t, deadline) == level /\ t >= deadline

\* Mutant of freq_change_allowed: no throttle.
freq_change_always(t, deadline) == TRUE

\* run(): the throttle of the frequency evaluation, the clock read `t`.
freq_change_allowed(t, deadline) == t >= deadline

\* Mutant of tone_needed: the tone is restarted at every evaluation.
tone_needed_always(f, last) == TRUE

\* Mutant of tone_needed: only the first tone is ever started.
tone_needed_first(f, last) == last = None

\* change_tone_if_needed: whether the tone is restarted.
tone_needed(f, last) == Some(f) # last

\* A call of advance(amount), with what the history keeps of it.  advance is
\* called once for every accepted press and never otherwise
\* (process_button_presses), so its calls count the accepted presses.
Advance(amount) ==
    LET pos == advance_pos(circle_pos, amount)
    IN  /\ circle_pos' = pos
        /\ presses_since_eval' = Min(presses_since_eval + 1, MaxPresses)
        /\ key_offset' = advance_key(pos)
        /\ last_adv' = Some([from |-> circle_pos, amount |-> amount])
        /\ adv_run' =
             IF amount # 1 THEN [start |-> pos, len |-> 0]
             ELSE IF adv_run.len >= MaxRun THEN [start |-> circle_pos, len |-> 1]
             ELSE [start |-> adv_run.start, len |-> adv_run.len + 1]

\* Poll with one of three slips: "no_refresh" (update_pixel is not called after
\* advance), "resets_tone" (an accepted press clears last_freq, to make the new
\* key sound at once), "rearms" (the deadline is set whenever the button is
\* down, before it is compared with the clock).
PollWithSlip(index, direction, next_pc, slip) ==
    \E level \in Levels(index) :
      \E t \in (IF level THEN Readings(now) ELSE {now}) :
        LET ok == pressed(level, t, next_press_allowed_at)
        IN  /\ now' = t
            /\ last_pressed' =
                 [last_pressed EXCEPT ![index] =
                     Some([at |-> t, level |-> level, result |-> ok,
                           after |-> last_accept,
                           advanced |-> IF ok THEN Some(direction) ELSE None,
                           refreshed |-> (ok /\ slip # "no_refresh")])]
            /\ next_press_allowed_at' =
                 IF ok \/ (level /\ slip = "rearms")
                 THEN t + BUTTON_REPEAT_AFTER_SECONDS
                 ELSE next_press_allowed_at
            /\ IF ok
               THEN /\ Advance(direction)
                    /\ last_accept' = Some([at |-> t, index |-> index])
               ELSE UNCHANGED << circle_pos, key_offset, last_accept, adv_run,
                                 last_adv, presses_since_eval >>
            /\ pixels' = IF ok /\ slip # "no_refresh"
                         THEN update_pixel(circle_pos') ELSE pixels
            /\ last_freq' = IF ok /\ slip = "resets_tone" THEN None ELSE last_freq
            /\ pc' = next_pc
            /\ UNCHANGED << next_freq_change_allowed_at, arpeg_note_indexes,
                            sample_rate, last_eval, start_tone_arg, built_octaves,
                            probe, calc_pair,
                            held >>

\* Mutants of Poll.
PollNoRefresh(index, direction, next_pc) ==
    PollWithSlip(index, direction, next_pc, "no_refresh")
PollResetsTone(index, direction, next_pc) ==
    PollWithSlip(index, direction, next_pc, "resets_tone")
PollRearms(index, direction, next_pc) ==
    PollWithSlip(index, direction, next_pc, "rearms")

\* One turn of the loop of process_button_presses: pressed(index) and, when it
\* returns True, advance(direction) and update_pixel(circle_pos).  The clock
\* is read only when the button is down.
Poll(index, direction, next_pc) ==
    \E level \in Levels(index) :
      \E t \in (IF level THEN Readings(now) ELSE {now}) :
        LET ok == pressed(level, t, next_press_allowed_at)
        IN  /\ now' = t
            /\ last_pressed' =
                 [last_pressed EXCEPT ![index] =
                     Some([at |-> t, level |-> level, result |-> ok,
                           after |-> last_accept,
                           advanced |-> IF ok THEN Some(direction) ELSE None,
                           refreshed |-> ok])]
            /\ IF ok
               THEN /\ next_press_allowed_at' = t + BUTTON_REPEAT_AFTER_SECONDS
                    /\ Advance(direction)
                    /\ pixels' = update_pixel(circle_pos')
                    /\ last_accept' = Some([at |-> t, index |-> index])
               ELSE UNCHANGED << next_press_allowed_at, circle_pos, key_offset,
                                 pixels, last_accept, adv_run, last_adv,
                                 presses_since_eval >>
            /\ pc' = next_pc
            /\ UNCHANGED << last_freq, next_freq_change_allowed_at, arpeg_note_indexes,
                            sample_rate, last_eval, start_tone_arg, built_octaves,
                            probe, calc_pair,
                            held >>

PollA == pc = "pollA" /\ Poll(0, 1, "pollB")
PollB == pc = "pollB" /\ Poll(1, -1, "tone")

\* What the history keeps of an evaluation at `t` that read the tilt `accel_y`
\* and the switch `switch` and computed `f`: whether start_tone was invoked,
\* whether f differed from last_freq, and how the evaluation before it (if
\* any) compares.
EvalRecord(t, f, accel_y, switch) ==
    [at |-> t, freq |-> f, accel_y |-> accel_y, switch |-> switch,
     started |-> tone_needed(f, last_freq),
     differs |-> (Some(f) # last_freq),
     has_prev |-> (last_eval # None),
     same_as_prev |-> (last_eval # None /\ last_eval[1].freq = f),
     same_inputs_as_prev |-> (/\ last_eval # None
                              /\ last_eval[1].accel_y = accel_y
                              /\ last_eval[1].switch = switch),
     presses_since_prev |-> presses_since_eval,
     prev_started |-> (last_eval # None /\ last_eval[1].started),
     since_prev |-> (IF last_eval = None THEN 0 ELSE t - last_eval[1].at)]

\* change_tone_if_needed(), the switch and the accelerometer reading
\* `switch` and `accel_y` and the clock at `t`.  An IndexError raised by
\* freq() ends the program.
ChangeToneIfNeeded(t, accel_y, switch, next_pc) ==
    LET f == freq(arpeg_note_indexes, key_offset, accel_y,
                  IF switch THEN 0 ELSE 1)
    IN  IF f.raised
        THEN /\ pc' = "crashed"
             /\ UNCHANGED << last_freq, sample_rate, last_eval, start_tone_arg,
                             presses_since_eval >>
        ELSE /\ pc' = next_pc
             /\ last_eval' = Some(EvalRecord(t, f.value, accel_y, switch))
             /\ presses_since_eval' = 0
             /\ IF tone_needed(f.value, last_freq)
                THEN /\ last_freq' = Some(f.value)
                     /\ start_tone_arg' = Some(f.value)
                     /\ sample_rate' = start_tone(sample_rate, f.value)
                ELSE UNCHANGED << last_freq, start_tone_arg, sample_rate >>

\* The rest of the loop body of run(): the throttle and change_tone_if_needed.
\* The clock is read at the comparison (t1) and again for the new deadline (t2).
ToneStep ==
    /\ pc = "tone"
    /\ \E t1 \in Readings(now) :
         IF freq_change_allowed(t1, next_freq_change_allowed_at)
         THEN \E t2 \in Readings(t1), switch \in BOOLEAN, accel_y \in AccelSamples :
                /\ now' = t2
                /\ next_freq_change_allowed_at' = t2 + MIN_NOTE_PLAY_SECONDS
                /\ ChangeToneIfNeeded(t2, accel_y, switch, "pollA")
         ELSE /\ now' = t1
              /\ pc' = "pollA"
              /\ UNCHANGED << next_freq_change_allowed_at, last_freq, sample_rate,
                              last_eval, start_tone_arg, presses_since_eval >>
    /\ UNCHANGED << circle_pos, key_offset, next_press_allowed_at, arpeg_note_indexes,
                    pixels, last_pressed, last_accept, adv_run, last_adv,
                    built_octaves, probe, calc_pair,
                    held >>

Next == PollA \/ PollB \/ ToneStep

\* The program: __init__, then run().
Spec == Init /\ [][Next]_vars

\* ------------------------------------------------------- a button held down

\* run() for as long as it runs.  time.monotonic() counts from an origin of
\* its own, and the program only compares its readings with deadlines that it
\* made from readings, so the clock is kept relative: when a tick of the clock
\* passes, the origin moves a tick along, `now` stays and the deadlines come
\* a tick nearer (a deadline that has passed stays at `now`).  Each step of the
\* loop reads the clock at `now`; the second reading of the loop body (line
\* 125) is a step of its own, so that time can pass before it.  The history
\* variables are left alone.

\* Mutant of HeldPoll: the deadline is set whenever the button is down, not
\* only when the press is accepted.
HeldPollRearms(index, direction, next_pc) ==
    \E level \in Levels(index) :
      LET ok == pressed(level, now, next_press_allowed_at)
      IN  /\ next_press_allowed_at' =
               IF level THEN now + BUTTON_REPEAT_AFTER_SECONDS
               ELSE next_press_allowed_at
          /\ IF ok
             THEN /\ circle_pos' = advance_pos(circle_pos, direction)
                  /\ key_offset' = advance_key(circle_pos')
                  /\ pixels' = update_pixel(circle_pos')
             ELSE UNCHANGED << circle_pos, key_offset, pixels >>
          /\ pc' = next_pc
          /\ UNCHANGED << now, last_freq, next_freq_change_allowed_at,
                          arpeg_note_indexes, sample_rate, last_pressed,
                          last_accept, last_eval, start_tone_arg, adv_run, last_adv,
                          built_octaves, probe, calc_pair, presses_since_eval,
                          held >>

\* One turn of the loop of process_button_presses: pressed(index) and, when it
\* returns True, advance(direction) and update_pixel(circle_pos).
HeldPoll(index, direction, next_pc) ==
    \E level \in Levels(index) :
      LET ok == pressed(level, now, next_press_allowed_at)
      IN  /\ IF ok
             THEN /\ next_press_allowed_at' = now + BUTTON_REPEAT_AFTER_SECONDS
                  /\ circle_pos' = advance_pos(circle_pos, direction)
                  /\ key_offset' = advance_key(circle_pos')
                  /\ pixels' = update_pixel(circle_pos')
             ELSE UNCHANGED << next_press_allowed_at, circle_pos, key_offset,
                               pixels >>
          /\ pc' = next_pc
          /\ UNCHANGED << now, last_freq, next_freq_change_allowed_at,
                          arpeg_note_indexes, sample_rate, last_pressed,
                          last_accept, last_eval, start_tone_arg, adv_run, last_adv,
                          built_octaves, probe, calc_pair, presses_since_eval,
                          held >>

HeldPollA == pc = "pollA" /\ HeldPoll(0, 1, "pollB")
HeldPollB == pc = "pollB" /\ HeldPoll(1, -1, "tone")

\* run(): the comparison of the throttle.
HeldThrottle ==
    /\ pc = "tone"
    /\ pc' = IF freq_change_allowed(now, next_freq_change_allowed_at)
             THEN "change" ELSE "pollA"
    /\ UNCHANGED << now, circle_pos, key_offset, last_freq,
                    next_freq_change_allowed_at, next_press_allowed_at,
                    arpeg_note_indexes, pixels, sample_rate, last_pressed,
                    last_accept, last_eval, start_tone_arg, adv_run, last_adv,
                    built_octaves, probe, calc_pair, presses_since_eval, held >>

\* run(): the new deadline of the throttle and change_tone_if_needed().
HeldChangeTone ==
    /\ pc = "change"
    /\ next_freq_change_allowed_at' = now + MIN_NOTE_PLAY_SECONDS
    /\ \E switch \in BOOLEAN, accel_y \in AccelSamples :
         LET f == freq(arpeg_note_indexes, key_offset, accel_y,
                       IF switch THEN 0 ELSE 1)
         IN  IF f.raised
             THEN /\ pc' = "crashed"
                  /\ UNCHANGED << last_freq, sample_rate, start_tone_arg >>
             ELSE /\ pc' = "pollA"
                  /\ IF tone_needed(f.value, last_freq)
                     THEN /\ last_freq' = Some(f.value)
                          /\ start_tone_arg' = Some(f.value)
                          /\ sample_rate' = start_tone(sample_rate, f.value)
                     ELSE UNCHANGED << last_freq, start_tone_arg, sample_rate >>
    /\ UNCHANGED << now, circle_pos, key_offset, next_press_allowed_at,
                    arpeg_note_indexes, pixels, last_pressed, last_accept,
                    last_eval, adv_run, last_adv, built_octaves, probe, calc_pair,
                    presses_since_eval, held >>

\* A tick of the clock passes.
Tick ==
    /\ next_freq_change_allowed_at' = Max(next_freq_change_allowed_at - 1, now)
    /\ next_press_allowed_at' = Max(next_press_allowed_at - 1, now)
    /\ UNCHANGED << now, circle_pos, key_offset, last_freq, arpeg_note_indexes,
                    pixels, sample_rate, pc, last_pressed, last_accept, last_eval,
                    start_tone_arg, adv_run, last_adv, built_octaves, probe,
                    calc_pair, presses_since_eval, held >>

LoopStep == HeldPollA \/ HeldPollB \/ HeldThrottle \/ HeldChangeTone

NextHeld == HeldPollA \/ HeldPollB \/ HeldThrottle \/ HeldChangeTone \/ Tick

\* run() with one button held down: the loop keeps iterating (nothing in it
\* blocks), and the clock advances without bound.
SpecHeld ==
    /\ InitHeld
    /\ [][NextHeld]_vars
    /\ WF_vars(LoopStep)
    /\ WF_vars(Tick)

\* ------------------------------------------------- the operations on their own

\* advance(amount) called directly, any number of times.
CallAdvance ==
    /\ \E amount \in {1, -1} : Advance(amount)
    /\ UNCHANGED << now, last_freq, next_freq_change_allowed_at, next_press_allowed_at,
                    arpeg_note_indexes, pixels, sample_rate, pc, last_pressed,
                    last_accept, last_eval, start_tone_arg, built_octaves, probe, calc_pair,
                    held >>

NextAdvance == CallAdvance

SpecAdvance == Init /\ [][NextAdvance]_vars

\* create_arpeggios(num_octaves) called directly, its result kept as the
\* note tables.
CallCreateArpeggios ==
    /\ probe = None
    /\ \E num_octaves \in 1..MaxOctaves :
         /\ arpeg_note_indexes' = create_arpeggios(num_octaves)
         /\ built_octaves' = num_octaves
    /\ UNCHANGED << now, circle_pos, key_offset, last_freq, next_freq_change_allowed_at,
                    next_press_allowed_at, pixels, sample_rate, pc, last_pressed,
                    last_accept, last_eval, start_tone_arg, adv_run, last_adv, probe, calc_pair,
                    presses_since_eval,
                    held >>

\* freq(tilt(), selected_arpeg) called once on the tables, for any reading of
\* the accelerometer.
CallFreq ==
    /\ probe = None
    /\ \E accel_y \in (-MaxAccel)..MaxAccel, selected_arpeg \in 0..1 :
         LET f == freq(arpeg_note_indexes, key_offset, accel_y, selected_arpeg)
         IN  probe' = Some([accel_y |-> accel_y, selected_arpeg |-> selected_arpeg,
                            arpeg_index |-> arpeg_index(accel_y, selected_arpeg),
                            raised |-> f.raised, value |-> f.value])
    /\ UNCHANGED << now, circle_pos, key_offset, last_freq, next_freq_change_allowed_at,
                    next_press_allowed_at, arpeg_note_indexes, pixels, sample_rate, pc,
                    last_pressed, last_accept, last_eval, start_tone_arg, adv_run,
                    last_adv, built_octaves, calc_pair, presses_since_eval,
                    held >>

NextTables == CallCreateArpeggios \/ CallFreq

SpecTables == Init /\ [][NextTables]_vars

\* calc_freq(i) and calc_freq(j) called directly, one after the other.
CallCalcFreq ==
    /\ \E i \in 0..MaxNote, j \in 0..MaxNote :
         calc_pair' = Some([i |-> i, j |-> j, at_i |-> calc_freq(i),
                            at_j |-> calc_freq(j)])
    /\ UNCHANGED << now, circle_pos, key_offset, last_freq, next_freq_change_allowed_at,
                    next_press_allowed_at, arpeg_note_indexes, pixels, sample_rate, pc,
                    last_pressed, last_accept, last_eval, start_tone_arg, adv_run,
                    last_adv, built_octaves, probe, presses_since_eval,
                    held >>

NextCalc == CallCalcFreq

SpecCalc == Init /\ [][NextCalc]_vars

\* The body of process_button_presses for an accepted press, called directly:
\* advance(direction), then update_pixel(self.circle_pos).
CallAdvanceAndShow ==
    /\ \E direction \in {1, -1} : Advance(direction)
    /\ pixels' = update_pixel(circle_pos')
    /\ UNCHANGED << now, last_freq, next_freq_change_allowed_at, next_press_allowed_at,
                    arpeg_note_indexes, sample_rate, pc, last_pressed, last_accept,
                    last_eval, start_tone_arg, built_octaves, probe, calc_pair,
                    held >>

NextPixel == CallAdvanceAndShow

SpecPixel == Init /\ [][NextPixel]_vars

\* change_tone_if_needed() called directly, between accepted presses.
CallChangeTone ==
    /\ pc # "crashed"
    /\ \E switch \in BOOLEAN, accel_y \in AccelSamples :
         ChangeToneIfNeeded(now, accel_y, switch, pc)
    /\ UNCHANGED << now, circle_pos, key_offset, next_freq_change_allowed_at,
                    next_press_allowed_at, arpeg_note_indexes, pixels, last_pressed,
                    last_accept, adv_run, last_adv, built_octaves, probe, calc_pair,
                    held >>

\* The body of process_button_presses for an accepted press of button A,
\* called directly.  Button A alone takes circle_pos through all twelve
\* positions.
CallPressA ==
    /\ pc # "crashed"
    /\ Advance(1)
    /\ pixels' = update_pixel(circle_pos')
    /\ UNCHANGED << now, last_freq, next_freq_change_allowed_at, next_press_allowed_at,
                    arpeg_note_indexes, sample_rate, pc, last_pressed, last_accept,
                    last_eval, start_tone_arg, built_octaves, probe, calc_pair,
                    held >>

NextTone == CallPressA \/ CallChangeTone

SpecTone == Init /\ [][NextTone]_vars

\* The readings of the accelerometer's y axis from flat to past one g, in
\* steps of 0.1 m/s^2; arpeg_index takes each of its values on several of them.
AccelRange == {-(10 * k) : k \in 0..(MaxAccel \div 10)}

\* The positions of the ring (counted from 0) that are lit.
LitPixels == {i \in 0..(NUM_PIXELS - 1) : pixels[i + 1] # "off"}

\* ------------------------------------------------------------------ claims

\* C1.  Any two accepted presses, of A or B in any combination, are at least
\* 0.25 s apart: a pressed() call that comes after an accepted press of either
\* button returns True only 0.25 s or more after it, and returns False before
\* that even with its button held (the deadline is shared).
C1_AcceptedPressesApart ==
    \A i \in 0..1 :
        (last_pressed[i] # None /\ last_pressed[i][1].after # None) =>
            LET c == last_pressed[i][1]
                a == last_pressed[i][1].after[1]
            IN  /\ c.result => c.at - a.at >= BUTTON_REPEAT_AFTER_SECONDS
                /\ (c.level /\ c.at - a.at < BUTTON_REPEAT_AFTER_SECONDS) => ~c.result

\* C1 witness: A is accepted 0.25 s or more after an accepted press of B, and
\* then B, held, is turned down because of that press of A.
C1_Witness ==
    /\ last_pressed[0] # None /\ last_pressed[1] # None
    /\ last_pressed[0][1].result
    /\ last_pressed[0][1].after # None
    /\ last_pressed[0][1].after[1].index = 1
    /\ last_pressed[1][1].level /\ ~last_pressed[1][1].result
    /\ last_pressed[1][1].after = Some([at |-> last_pressed[0][1].at, index |-> 0])

\* C2 as stated.  Of any two successive pressed(A) calls with A held at both,
\* the second returns True exactly when it is made 0.25 s or more after the
\* first.
C2_AnyTwoCallsOfA ==
    [][(pc = "pollA" /\ last_pressed[0] # None
          /\ last_pressed[0][1].level /\ last_pressed'[0][1].level)
        => (last_pressed'[0][1].result
              <=> last_pressed'[0][1].at - last_pressed[0][1].at
                      >= BUTTON_REPEAT_AFTER_SECONDS)]_vars

\* C2 as amended.  A pressed(A) call with A held, made after a pressed(A) call
\* that returned True and with no press accepted between the two, returns
\* False when it is made less than 0.25 s after that call and True when it is
\* made 0.25 s or more after it.
C2_SecondCallAfterAcceptedA ==
    (last_pressed[0] # None /\ last_pressed[0][1].level
       /\ last_pressed[0][1].after # None /\ last_pressed[0][1].after[1].index = 0)
    => (last_pressed[0][1].result
          <=> last_pressed[0][1].at - last_pressed[0][1].after[1].at
                  >= BUTTON_REPEAT_AFTER_SECONDS)

\* C2 witness: A, still held, is accepted again exactly 0.25 s after its
\* accepted press.
C2_Witness ==
    /\ last_pressed[0] # None
    /\ last_pressed[0][1].level /\ last_pressed[0][1].result
    /\ last_pressed[0][1].after # None
    /\ last_pressed[0][1].after[1].index = 0
    /\ last_pressed[0][1].at - last_pressed[0][1].after[1].at = BUTTON_REPEAT_AFTER_SECONDS

\* C3.  No retrigger: when two consecutive evaluations compute the same
\* frequency, the second does not invoke start_tone, so start_tone is invoked
\* at most once across the two.
C3_NoRetrigger ==
    (last_eval # None /\ last_eval[1].has_prev /\ last_eval[1].same_as_prev)
    => /\ ~last_eval[1].started
       /\ ~(last_eval[1].prev_started /\ last_eval[1].started)

\* C3 witness: an evaluation started a tone and the next one computed the same
\* frequency.
C3_Witness ==
    /\ last_eval # None
    /\ last_eval[1].has_prev /\ last_eval[1].same_as_prev
    /\ last_eval[1].prev_started
    /\ start_tone_arg = Some(last_eval[1].freq)

\* C4.  Note throttle: two consecutive evaluations are at least
\* MIN_NOTE_PLAY_SECONDS apart on the clock, and the buttons are polled in
\* every iteration, whatever the deadline of the evaluation: past the poll of
\* a button in the loop body, that button has been polled at the current
\* reading of the clock.
C4_NoteThrottle ==
    /\ (last_eval # None /\ last_eval[1].has_prev)
          => last_eval[1].since_prev >= MIN_NOTE_PLAY_SECONDS
    /\ pc \in {"pollB", "tone"}
          => (last_pressed[0] # None /\ last_pressed[0][1].at <= now)
    /\ pc = "pollB" => last_pressed[0][1].at = now
    /\ pc = "tone" => (last_pressed[1] # None /\ last_pressed[1][1].at = now)

\* C4 witness: the second evaluation came exactly 0.2 s after the first, and
\* both buttons have been polled since, while the next evaluation is not yet
\* allowed.
C4_Witness ==
    /\ pc = "tone"
    /\ last_eval # None /\ last_eval[1].has_prev
    /\ last_eval[1].since_prev = MIN_NOTE_PLAY_SECONDS
    /\ now < next_freq_change_allowed_at
    /\ last_pressed[0][1].at > last_eval[1].at
    /\ last_pressed[1][1].at > last_eval[1].at

\* C5.  An evaluation invokes start_tone exactly when the frequency it
\* computed differs from last_freq (None at the first evaluation) and leaves
\* last_freq equal to that frequency; last_freq is None while no tone was
\* started and otherwise the argument of the latest start_tone call.
C5_LastFreqIsLatestTone ==
    /\ last_freq = start_tone_arg
    /\ last_eval = None => last_freq = None
    /\ last_eval # None =>
          /\ last_eval[1].started <=> last_eval[1].differs
          /\ last_freq = Some(last_eval[1].freq)
          /\ ~last_eval[1].has_prev => last_eval[1].started

\* C5 witness: a second tone was started, at a frequency other than the
\* first.
C5_Witness ==
    /\ last_eval # None
    /\ last_eval[1].has_prev /\ last_eval[1].prev_started
    /\ last_eval[1].started /\ ~last_eval[1].same_as_prev
    /\ last_freq = Some(last_eval[1].freq)

\* C6.  After any sequence of advance(+1) and advance(-1) calls from
\* circle_pos = 0, circle_pos is in 0 .. 11 and key_offset is
\* (circle_pos * 5) mod 12.
C6_CirclePosInRange ==
    /\ circle_pos \in 0..11
    /\ key_offset = (circle_pos * 5) % 12

\* C6 witness: retreating from 0.
C6_Witness ==
    /\ last_adv = Some([from |-> 0, amount |-> -1])
    /\ circle_pos = 11

\* C7.  Twelve consecutive advance(+1) calls from circle_pos = 0 lead back to
\* circle_pos = 0 and key_offset = 0; advance(-1) from circle_pos = 0 leads to
\* circle_pos = 11 and key_offset = 7.
C7_Wraparound ==
    /\ (adv_run.start = 0 /\ adv_run.len = 12) => (circle_pos = 0 /\ key_offset = 0)
    /\ last_adv = Some([from |-> 0, amount |-> -1])
          => (circle_pos = 11 /\ key_offset = 7)

\* C7 witness: the twelfth consecutive advance(+1) from 0.
C7_Witness ==
    /\ adv_run = [start |-> 0, len |-> 12]
    /\ last_adv = Some([from |-> 11, amount |-> 1])

\* C8.  Range guarantee: on the tables precomputed with NUM_OCTAVES + 2
\* octaves, for every tilt in [0, 1] and both arpeggios, arpeg_index is in
\* 0 .. len(arpeggio) * NUM_OCTAVES + 1 and is an index of the table, so
\* freq() raises nothing; for dominant seventh, tilt 0.0 gives index 0 and
\* tilt 1.0 gives index 17.
C8_IndexInRange ==
    (probe # None /\ built_octaves = NUM_OCTAVES + 2) =>
        LET p == probe[1]
            arpeggio == ARPEGGIOS[probe[1].selected_arpeg + 1]
        IN  /\ p.arpeg_index \in 0..(Len(arpeggio) * NUM_OCTAVES + 1)
            /\ p.arpeg_index < Len(arpeg_note_indexes[p.selected_arpeg + 1])
            /\ ~p.raised
            /\ (p.selected_arpeg = 0 /\ p.accel_y >= 0) => p.arpeg_index = 0
            /\ (p.selected_arpeg = 0 /\ p.accel_y <= -standard_gravity)
                  => p.arpeg_index = 17

\* C8 witness: dominant seventh at tilt 1.0, past one g.
C8_Witness ==
    /\ probe # None
    /\ built_octaves = NUM_OCTAVES + 2
    /\ probe[1].selected_arpeg = 0
    /\ probe[1].accel_y < -standard_gravity
    /\ probe[1].arpeg_index = 17
    /\ ~probe[1].raised

\* C9 as stated.  For dominant seventh the lookup at index 17 is in range
\* exactly when the table was built with at least NUM_OCTAVES + 2 = 6 octaves.
C9_NeedsSixOctaves ==
    (probe # None /\ probe[1].selected_arpeg = 0 /\ probe[1].arpeg_index = 17)
    => (~probe[1].raised <=> built_octaves >= NUM_OCTAVES + 2)

\* C9 as amended.  For dominant seventh the lookup at index 17 is in range
\* exactly when the table was built with at least NUM_OCTAVES + 1 = 5 octaves
\* (18 entries are needed, an octave holds 4): a table of NUM_OCTAVES octaves
\* or fewer makes it out of range, and the NUM_OCTAVES + 2 octaves precomputed
\* are one more than the lookup needs.
C9_NeedsFiveOctaves ==
    (probe # None /\ probe[1].selected_arpeg = 0 /\ probe[1].arpeg_index = 17)
    => (~probe[1].raised <=> built_octaves >= NUM_OCTAVES + 1)

\* C9 witness: the lookup at index 17 on a table of NUM_OCTAVES octaves raises.
C9_Witness ==
    /\ probe # None
    /\ probe[1].selected_arpeg = 0 /\ probe[1].arpeg_index = 17
    /\ built_octaves = NUM_OCTAVES
    /\ probe[1].raised

\* C10.  Table monotonicity: for each arpeggio and every num_octaves >= 1,
\* create_arpeggio returns a non-decreasing sequence of length
\* len(definition) * num_octaves whose entry at position o * len(definition) + i
\* (counted from 0) is o * 12 + definition[i].
C10_TableShape ==
    \A a \in 1..Len(ARPEGGIOS) :
        LET table == arpeg_note_indexes[a]
            definition == ARPEGGIOS[a]
        IN  /\ Len(table) = Len(definition) * built_octaves
            /\ \A k \in 1..(Len(table) - 1) : table[k] <= table[k + 1]
            /\ \A o \in 0..(built_octaves - 1), i \in 0..(Len(definition) - 1) :
                  table[o * Len(definition) + i + 1] = o * 12 + definition[i + 1]

\* C10 witness: the tables of three octaves.
C10_Witness ==
    /\ built_octaves = 3
    /\ Len(arpeg_note_indexes[1]) = 12
    /\ Len(arpeg_note_indexes[2]) = 18

\* C11 as stated.  The one pixel lit is pixel (4 - circle_pos) mod 12, green
\* when circle_pos <= 9 and yellow otherwise.
C11_PixelIndexModTwelve ==
    /\ LitPixels = {(4 - circle_pos) % 12}
    /\ \A i \in LitPixels :
          pixels[i + 1] = (IF circle_pos <= 9 THEN "green" ELSE "yellow")

\* C11 as amended.  The one pixel lit is pixel (4 - circle_pos) mod 10, the
\* ring having ten pixels; it is green when circle_pos <= 9 and yellow
\* otherwise.
C11_PixelIndexModTen ==
    /\ LitPixels = {(4 - circle_pos) % 10}
    /\ \A i \in LitPixels :
          pixels[i + 1] = (IF circle_pos <= 9 THEN "green" ELSE "yellow")

\* C11 witness: circle position 10, shown in the second color on pixel 4.
C11_Witness ==
    /\ circle_pos = 10
    /\ last_adv # None
    /\ pixels[5] = "yellow"

\* C12.  At every boundary between two iterations of the loop exactly one
\* pixel is lit, the one update_pixel computes for the current circle_pos; an
\* accepted press of A has applied advance(+1), one of B advance(-1), each
\* followed by update_pixel, and a press turned down has done neither.
C12_DisplayFollowsCircle ==
    /\ pc = "pollA" =>
          /\ Cardinality(LitPixels) = 1
          /\ pixels = update_pixel(circle_pos)
    /\ \A i \in 0..1 :
          last_pressed[i] # None =>
              IF last_pressed[i][1].result
              THEN /\ last_pressed[i][1].advanced = Some(IF i = 0 THEN 1 ELSE -1)
                   /\ last_pressed[i][1].refreshed
              ELSE /\ last_pressed[i][1].advanced = None
                   /\ ~last_pressed[i][1].refreshed

\* C12 witness: an iteration in which A was turned down and B accepted has
\* ended at circle position 11.
C12_Witness ==
    /\ pc = "pollA"
    /\ last_pressed[0] # None /\ last_pressed[1] # None
    /\ ~last_pressed[0][1].result
    /\ last_pressed[1][1].result
    /\ circle_pos = 11
    /\ pixels[4] = "yellow"

\* C19.  The pixel written by update_pixel is one of the ten of the ring, and
\* the pair (pixel index, color) shown identifies circle_pos: no other circle
\* position is shown as the same pixel in the same color.
C19_DisplayIdentifiesCircle ==
    /\ Cardinality(LitPixels) = 1
    /\ LitPixels \subseteq 0..9
    /\ \A i \in LitPixels :
          \A q \in 0..11 :
              (i = pixel_index(q) /\ pixels[i + 1] = pixel_color(q)) => q = circle_pos

\* C19 witness: circle position 11, on the same pixel as position 1 but in the
\* second color.
C19_Witness ==
    /\ circle_pos = 11
    /\ last_adv # None
    /\ LitPixels = {pixel_index(1)}
    /\ pixels[4] = "yellow"

\* C13.  Frame: a turn of process_button_presses (pressed, advance,
\* update_pixel) leaves last_freq and next_freq_change_allowed_at unchanged,
\* so that last_freq changes only in the tone step; the tone step leaves
\* circle_pos, key_offset and next_press_allowed_at unchanged.
C13_Frame ==
    [][/\ pc \in {"pollA", "pollB"} =>
             /\ last_freq' = last_freq
             /\ next_freq_change_allowed_at' = next_freq_change_allowed_at
       /\ pc = "tone" =>
             /\ circle_pos' = circle_pos
             /\ key_offset' = key_offset
             /\ next_press_allowed_at' = next_press_allowed_at]_vars

\* C13 witness: a press was accepted after a tone was started, and last_freq
\* is still the frequency of the latest evaluation.
C13_Witness ==
    /\ pc = "tone"
    /\ last_pressed[1] # None /\ last_pressed[1][1].result
    /\ last_eval # None
    /\ last_pressed[1][1].at > last_eval[1].at
    /\ last_freq = Some(last_eval[1].freq)
    /\ key_offset # 0

\* C14.  A pressed() call that returns False changes neither
\* next_press_allowed_at nor circle_pos nor key_offset; one that returns True
\* sets the deadline to its reading of the clock plus 0.25 s; nothing else
\* moves the deadline, and it never decreases.
C14_RejectedPressChangesNothing ==
    [][/\ \A i \in 0..1 :
             pc = (IF i = 0 THEN "pollA" ELSE "pollB") =>
                 IF last_pressed'[i][1].result
                 THEN next_press_allowed_at'
                          = last_pressed'[i][1].at + BUTTON_REPEAT_AFTER_SECONDS
                 ELSE /\ next_press_allowed_at' = next_press_allowed_at
                      /\ circle_pos' = circle_pos
                      /\ key_offset' = key_offset
       /\ pc = "tone" => next_press_allowed_at' = next_press_allowed_at
       /\ next_press_allowed_at' >= next_press_allowed_at]_vars

\* C14 witness: B, held, was turned down after an accepted press, and the
\* deadline is still that press's.
C14_Witness ==
    /\ pc = "tone"
    /\ last_pressed[1] # None
    /\ last_pressed[1][1].level /\ ~last_pressed[1][1].result
    /\ last_accept # None
    /\ last_pressed[1][1].at > last_accept[1].at
    /\ next_press_allowed_at = last_accept[1].at + BUTTON_REPEAT_AFTER_SECONDS

C16_TranspositionAudible ==
    (/\ last_eval # None
     /\ last_eval[1].has_prev
     /\ last_eval[1].presses_since_prev = 1
     /\ last_eval[1].same_inputs_as_prev)
    => (~last_eval[1].same_as_prev /\ last_eval[1].started)

\* C16 witness: such a second evaluation has happened and started a tone.
C16_Witness ==
    /\ last_eval # None
    /\ last_eval[1].has_prev
    /\ last_eval[1].presses_since_prev = 1
    /\ last_eval[1].same_inputs_as_prev
    /\ last_eval[1].started
    /\ start_tone_arg = Some(last_eval[1].freq)

\* C17 as stated.  In every reachable state, for every tilt and both switch
\* positions, the note index key_offset + table[arpeg_index] is in [0, 62].
C17_NoteIndexAtMost62 ==
    \A accel_y \in AccelRange, selected_arpeg \in 0..1 :
      note_index(arpeg_note_indexes, key_offset, accel_y, selected_arpeg) \in 0..62

\* C17 with the bound of the code.  In every reachable state, for every tilt
\* and both switch positions, freq() raises nothing, the note index is in
\* [0, 63] and its frequency is below the 20 kHz ceiling, so start_tone plays
\* it; and last_freq, once set, is the frequency of the tone that is playing.
C17_ToneAlwaysPlays ==
    /\ \A accel_y \in AccelRange, selected_arpeg \in 0..1 :
         LET r == freq(arpeg_note_indexes, key_offset, accel_y, selected_arpeg)
         IN  /\ ~r.raised
             /\ note_index(arpeg_note_indexes, key_offset, accel_y,
                           selected_arpeg) \in 0..63
             /\ r.value < highest_supported_frequency
             /\ start_tone(None, r.value) = Some((2 * r.value) \div 1000)
    /\ last_freq # None =>
         /\ start_tone_arg = last_freq
         /\ sample_rate = Some((2 * last_freq[1]) \div 1000)

\* C17 witness: in the key with offset 11 the highest note, index 63, is
\* playing.
C17_Witness ==
    /\ circle_pos = 7
    /\ key_offset = 11
    /\ last_freq = Some(calc_freq(63))
    /\ sample_rate = Some((2 * calc_freq(63)) \div 1000)

\* C18.  With one button held down and the other released, the loop
\* iterating and the clock advancing without bound, presses of the held
\* button are accepted again and again, each moving circle_pos by +1 (button
\* A) or -1 (button B).
HeldPressAccepted ==
    \E index \in 0..1 :
      /\ held = Some(index)
      /\ pc = (IF index = 0 THEN "pollA" ELSE "pollB")
      /\ next_press_allowed_at' = now + BUTTON_REPEAT_AFTER_SECONDS
      /\ circle_pos' = advance_pos(circle_pos, IF index = 0 THEN 1 ELSE -1)
C18_HeldButtonKeepsAdvancing == []<><<HeldPressAccepted>>_vars

\* C18 witness: the second press of the held button A has just been accepted,
\* the debounce of the first having run out.
C18_Witness ==
    /\ held = Some(0)
    /\ circle_pos = 2
    /\ pc = "pollB"
    /\ next_press_allowed_at = now + BUTTON_REPEAT_AFTER_SECONDS

=============================================================================
